---- MODULE Spec2Model ----
(***************************************************************************)
(* A model of flusso's containment boundaries: the synchronous do-notation *)
(* of Option and Result (primitives/base.py), the asynchronous do-notation *)
(* of AsyncResult (async_result.py) and the lifting decorators result and  *)
(* async_result.                                                           *)
(*                                                                         *)
(* A behaviour is one run of one caller program (prog), chosen with its    *)
(* inputs in Init:                                                         *)
(*   "sync_do"    with do(e1) as a, do(e2) as b, ...: body                 *)
(*   "async_do"   async with AsyncResult.do(a=c1, b=c2, ...) as r: block   *)
(*   "result_dec" a call of result(fn)                                     *)
(*   "async_dec"  an awaited call of async_result(fn)                      *)
(*   "option_dec" a call of option(fn)                                     *)
(*   "chain"      recv.m1(..).m2(..)...: a chain of Option / Result        *)
(*                methods, a comparison a == b, or flatten(recv)           *)
(*   "async_comb" await AsyncResult(recv).m(fn) for fmap, fmap_err,        *)
(*                and_then, or_else                                        *)
(* The generators behind do are driven the way contextlib's                *)
(* contextmanager / asynccontextmanager drive them, one action per         *)
(* __enter__, __exit__, await or resumption.                               *)
(***************************************************************************)
EXTENDS Integers, Sequences, FiniteSets, TLC

\* Longest chain of do scopes / longest mapping of named computations.
MaxSteps == 3
\* The caller's starting values are 0..MaxVal.
MaxVal == 1

\* Deepest nesting of containers given to flatten.
MaxDepth == 3

VARIABLES
    prog,       \* the caller program of this run
    pc,         \* position of the caller / of the generator driving it
    raised,     \* the exception that reached the caller, or NoExc
    ret,        \* the value a decorated call returned, or Unset
    log,        \* records handed to logging.error, in order
    kind,       \* "Option" or "Result": the class whose do is used
    n,          \* number of steps of the chain / of named computations
    x,          \* the caller's starting value
    stepOut,    \* per step: what the step's computation does
    bodyOut,    \* what the block body does: "normal" or "raise"
    fnOut,      \* what the function under a decorator does
    level,      \* the scope (sync) or loop position (async) being worked on
    container,  \* per step: the container the step's expression produced
    bound,      \* per step: the value bound by "as", or Unset
    gen,        \* per step: state of the scope's generator
    exc,        \* the exception in flight inside the with statement
    invoked,    \* per step: how often the step's computation was started
    order,      \* the steps in the order their computation was started
    bodyRuns,   \* how often the block body started executing
    co,         \* per named computation: "created", "running" or "done"
    results,    \* the results dict of AsyncResult.do
    yielded,    \* the values AsyncResult.do's generator yielded, in order
    site        \* the yield at which AsyncResult.do's generator is suspended

VARIABLES
    recv,       \* the receiver: an Option, a Result, or AsyncResult's _result
    chain,      \* the method calls of the caller's expression, in order
    cur,        \* the value the next method of the chain is called on
    pos,        \* number of calls of the chain that were made
    fcalls,     \* per call of the chain: invocations of the function passed
    fnOut2,     \* what the function under option does when called again
    taken       \* async combinator: the branch taken and fn's argument

\* The state of the method-call programs.
callVars == <<recv, chain, cur, pos, fcalls, fnOut2, taken>>

vars == <<prog, pc, raised, ret, log, kind, n, x, stepOut, bodyOut, fnOut,
          level, container, bound, gen, exc, invoked, order, bodyRuns,
          co, results, yielded, site, callVars>>

-----------------------------------------------------------------------------
(* Python values *)

PyInt(k) == [cls |-> "int", val |-> k]
PyStr(s) == [cls |-> "str", str |-> s]
PyNone == [cls |-> "NoneType"]
PyExc(c, m) == [cls |-> c, msg |-> m]

\* Markers of the model: no exception in flight, a name not (yet) bound.
NoExc == [cls |-> "NoExc"]
Unset == [cls |-> "unset"]

\* Outcome of a call: it returns a value or raises an exception.
Return(v) == [how |-> "return", val |-> v]
Raise(e) == [how |-> "raise", val |-> e]

\* The outcome of a method together with the number of times it invoked
\* the function passed to it.
Called(out) == [out |-> out, calls |-> 1]

NotCalled(out) == [out |-> out, calls |-> 0]

\* The classes matched by "except Exception".  Every fault of the model is
\* an instance of one of them (faults are Python Exceptions; KeyboardInterrupt
\* and the like are not modelled).
ExceptionClasses ==
    {"ValueError", "KeyError", "RuntimeError", "UnwrapFailedError"}

IsException(e) == e.cls \in ExceptionClasses

-----------------------------------------------------------------------------
(* Option and Result *)

Nothing == [tag |-> "Nothing"]

\* Faulty variant of Some: no __new__, the dataclass wraps whatever it is given.
SomeRaw(v) == [tag |-> "Some", value |-> v]

Some(v) == IF v = PyNone \/ v = Nothing THEN Nothing
           ELSE [tag |-> "Some", value |-> v]

Ok(v) == [tag |-> "Ok", value |-> v]

Err(e) == [tag |-> "Err", value |-> e]

is_some(o) == o.tag = "Some"

is_ok(r) == r.tag = "Ok"

is_err(r) == r.tag = "Err"

UnwrapFailedError(c) == [cls |-> "UnwrapFailedError", halted_container |-> c]

\* Faulty variant of unwrap: the wrong channel raises
\* ValueError("Cannot call `unwrap` on `Err` value").
unwrapValueError(c) ==
    IF c.tag \in {"Some", "Ok"} THEN Return(c.value)
    ELSE Raise(PyExc("ValueError", "Cannot call unwrap"))

\* Some.unwrap / Ok.unwrap return the value; Nothing.unwrap / Err.unwrap raise.
unwrap(c) == IF c.tag \in {"Some", "Ok"} THEN Return(c.value)
             ELSE Raise(UnwrapFailedError(c))

\* Err.unwrap_err returns the error; Ok.unwrap_err raises.
unwrap_err(r) == IF r.tag = "Err" THEN Return(r.value)
                 ELSE Raise(UnwrapFailedError(r))

AsyncResult(r) == [result |-> r]

-----------------------------------------------------------------------------
(* The caller's inputs *)

Steps == 1..n

AllSteps == 1..MaxSteps

StepOutcomes == {"succ", "fail", "raise"}

\* Names of the keyword arguments of AsyncResult.do, in the caller's order.
NameOf == <<"a", "b", "c", "d", "e", "f">>

BodyFault == PyExc("ValueError", "boom")

StepFault == PyExc("KeyError", "step")

\* The argument of step i of a synchronous chain: the caller's x for the
\* first step, the name bound by the previous scope afterwards.
StepArg(i) == IF i = 1 THEN PyInt(x) ELSE bound[i - 1]

\* The step functions of a synchronous chain (add_one / add_one_result, and
\* fail_on_even's failure branch): a container computed from the argument.
StepFn(k, out, arg) ==
    IF out = "succ"
    THEN (IF k = "Option" THEN Some(PyInt(arg.val + 1))
                          ELSE Ok(PyInt(arg.val + 1)))
    ELSE (IF k = "Option" THEN Nothing ELSE Err(PyStr("Even number")))

\* What awaiting the computation named NameOf[i] produces (the computations
\* handed to AsyncResult.do are async_result-style coroutines): an
\* AsyncResult of Ok or of Err, or a raised fault.
CoroOutcome(i) ==
    CASE stepOut[i] = "succ" -> Return(AsyncResult(Ok(PyInt(x + i))))
      [] stepOut[i] = "fail" -> Return(AsyncResult(Err(PyStr(NameOf[i]))))
      [] OTHER -> Raise(StepFault)

\* What the function under result / async_result does when called.
FnOutcomes ==
    {Return(PyInt(v)) : v \in 0..MaxVal} \cup {Return(PyNone), Raise(BodyFault)}

-----------------------------------------------------------------------------
(* Synchronous do-notation: Option.do and Result.do under contextmanager *)

\* "if option.is_some():" / "if result.is_ok():"
DoEnters(k, c) == IF k = "Option" THEN is_some(c) ELSE is_ok(c)

\* Faulty variant of DoHandles: "except ValueError as e:".
DoHandlesValueError(e) == e.cls = "ValueError"

\* Faulty variant of DoHandles: "except UnwrapFailedError as e:".
DoHandlesUnwrapFailed(e) == e.cls = "UnwrapFailedError"

\* "except Exception as e:" around the yield
DoHandles(e) == IsException(e)

\* Faulty variant of DoYields: "yield option" / "yield result".
DoYieldsContainer(c) == c

\* "yield option.unwrap()" / "yield result.unwrap()": the value handed to
\* the with statement, which binds it to the name after "as".
DoYields(c) == unwrap(c).val

\* logging.error(f"An error occurred while unwrapping the ... value: {e}")
DoLogRecord(k, e) == [levelname |-> "ERROR", of |-> k, error |-> e]

\* contextmanager.__enter__ when the generator returns without yielding.
DidntYield == PyExc("RuntimeError", "generator didn't yield")

\* The body of scope lvl is left with e in flight (NoExc: normally).  Scope
\* lvl's __exit__ is next; lvl = 0 is the caller of the with statement.
Leave(lvl, e) ==
    /\ level' = lvl
    /\ IF lvl = 0
       THEN /\ pc' = (IF e = NoExc THEN "after" ELSE "raised")
            /\ raised' = e
            /\ exc' = NoExc
       ELSE /\ pc' = "exit"
            /\ raised' = raised
            /\ exc' = e

\* The with statement evaluates the container expression of item `level`.
SyncEvalStep ==
    /\ prog = "sync_do" /\ pc = "eval"
    /\ invoked' = [invoked EXCEPT ![level] = @ + 1]
    /\ order' = Append(order, level)
    /\ IF stepOut[level] = "raise"
       THEN /\ container' = container
            /\ Leave(level - 1, StepFault)
       ELSE /\ container' = [container EXCEPT
                   ![level] = StepFn(kind, stepOut[level], StepArg(level))]
            /\ pc' = "enter"
            /\ UNCHANGED <<raised, exc, level>>
    /\ UNCHANGED callVars
    /\ UNCHANGED <<prog, ret, log, kind, n, x, stepOut, bodyOut, fnOut, bound,
                   gen, bodyRuns, co, results, yielded, site>>

\* __enter__ of do(container[level]): the generator runs to its yield and
\* the yielded value is bound, or it returns and __enter__ raises.
SyncDoEnter ==
    /\ prog = "sync_do" /\ pc = "enter"
    /\ IF DoEnters(kind, container[level])
       THEN /\ gen' = [gen EXCEPT ![level] = "suspended"]
            /\ bound' = [bound EXCEPT ![level] = DoYields(container[level])]
            /\ pc' = (IF level = n THEN "body" ELSE "eval")
            /\ level' = (IF level = n THEN level ELSE level + 1)
            /\ UNCHANGED <<raised, exc>>
       ELSE /\ gen' = [gen EXCEPT ![level] = "finished"]
            /\ bound' = bound
            /\ Leave(level - 1, DidntYield)
    /\ UNCHANGED callVars
    /\ UNCHANGED <<prog, ret, log, kind, n, x, stepOut, bodyOut, fnOut,
                   container, invoked, order, bodyRuns, co, results, yielded,
                   site>>

\* The block body of the innermost scope runs.
SyncBody ==
    /\ prog = "sync_do" /\ pc = "body"
    /\ bodyRuns' = bodyRuns + 1
    /\ Leave(n, IF bodyOut = "raise" THEN BodyFault ELSE NoExc)
    /\ UNCHANGED callVars
    /\ UNCHANGED <<prog, ret, log, kind, n, x, stepOut, bodyOut, fnOut,
                   container, bound, gen, invoked, order, co, results,
                   yielded, site>>

\* __exit__ of scope `level`: the generator is resumed at its yield (exc =
\* NoExc) or exc is thrown into it there; it handles and logs the exception
\* and returns, which makes __exit__ suppress it, or the exception goes on.
SyncDoExit ==
    /\ prog = "sync_do" /\ pc = "exit"
    /\ gen' = [gen EXCEPT ![level] = "finished"]
    /\ IF exc = NoExc
       THEN /\ log' = log
            /\ Leave(level - 1, NoExc)
       ELSE IF DoHandles(exc)
            THEN /\ log' = Append(log, DoLogRecord(kind, exc))
                 /\ Leave(level - 1, NoExc)
            ELSE /\ log' = log
                 /\ Leave(level - 1, exc)
    /\ UNCHANGED callVars
    /\ UNCHANGED <<prog, ret, kind, n, x, stepOut, bodyOut, fnOut, container,
                   bound, invoked, order, bodyRuns, co, results, yielded,
                   site>>

-----------------------------------------------------------------------------
(* Asynchronous do-notation: AsyncResult.do under asynccontextmanager *)

\* "except Exception as e:" around the loop and both yields of the try block
ADoHandles(e) == IsException(e)

\* asynccontextmanager.__aexit__ when the generator yields again after athrow.
DidntStop == PyExc("RuntimeError", "generator didn't stop after athrow()")

\* Faulty variant of ADoAwait: the computations are gathered, all of them are started
\* when the first one is awaited.
ADoAwaitGather ==
    /\ prog = "async_do" /\ pc = "loop" /\ level <= n
    /\ co[level] \in {"created", "running"}
    /\ co' = [i \in AllSteps |->
                IF i <= n /\ co[i] = "created" THEN "running" ELSE co[i]]
    /\ invoked' = [i \in AllSteps |->
                     IF i <= n /\ co[i] = "created" THEN invoked[i] + 1
                     ELSE invoked[i]]
    /\ order' = Append(order, level)
    /\ pc' = "await"
    /\ UNCHANGED callVars
    /\ UNCHANGED <<prog, raised, ret, log, kind, n, x, stepOut, bodyOut, fnOut,
                   level, container, bound, gen, exc, bodyRuns, results,
                   yielded, site>>

\* "async_result = await coro": the loop reaches the computation at position
\* `level` and starts it; the generator is suspended until it completes.
ADoAwait ==
    /\ prog = "async_do" /\ pc = "loop" /\ level <= n
    /\ co[level] = "created"
    /\ co' = [co EXCEPT ![level] = "running"]
    /\ invoked' = [invoked EXCEPT ![level] = @ + 1]
    /\ order' = Append(order, level)
    /\ pc' = "await"
    /\ UNCHANGED callVars
    /\ UNCHANGED <<prog, raised, ret, log, kind, n, x, stepOut, bodyOut, fnOut,
                   level, container, bound, gen, exc, bodyRuns, results,
                   yielded, site>>

\* Faulty variant of ADoStep: an Err result does not end the loop; its error is
\* stored under the name like a value.
ADoStepNoShortCircuit(out) ==
    IF out.how = "raise"
    THEN (IF ADoHandles(out.val)
          THEN [act |-> "yield", site |-> "except",
                val |-> AsyncResult(Err(out.val))]
          ELSE [act |-> "raise", site |-> "none", val |-> out.val])
    ELSE [act |-> "store", site |-> "none", val |-> out.val.result.value]

\* Faulty variant of ADoStep: "results[name] = async_result", the awaited AsyncResult
\* is stored as it is.
ADoStepStoreWrapped(out) ==
    IF out.how = "raise"
    THEN (IF ADoHandles(out.val)
          THEN [act |-> "yield", site |-> "except",
                val |-> AsyncResult(Err(out.val))]
          ELSE [act |-> "raise", site |-> "none", val |-> out.val])
    ELSE (IF is_err(out.val.result)
          THEN [act |-> "yield", site |-> "err",
                val |-> AsyncResult(Err(unwrap_err(out.val.result).val))]
          ELSE [act |-> "store", site |-> "none", val |-> out.val])

\* Faulty variant of ADoStep: no except clause around the await.
ADoStepNoExcept(out) ==
    IF out.how = "raise"
    THEN [act |-> "raise", site |-> "none", val |-> out.val]
    ELSE (IF is_err(out.val.result)
          THEN [act |-> "yield", site |-> "err",
                val |-> AsyncResult(Err(unwrap_err(out.val.result).val))]
          ELSE [act |-> "store", site |-> "none",
                val |-> unwrap(out.val.result).val])

\* The loop body after "async_result = await coro", given the outcome of the
\* await.  A raised fault goes to the except clause, which yields Err(e); an
\* Err result is yielded as Err(unwrap_err()) and the generator returns; an
\* Ok result is unwrapped, to be stored under the computation's name.
ADoStep(out) ==
    IF out.how = "raise"
    THEN (IF ADoHandles(out.val)
          THEN [act |-> "yield", site |-> "except",
                val |-> AsyncResult(Err(out.val))]
          ELSE [act |-> "raise", site |-> "none", val |-> out.val])
    ELSE (IF is_err(out.val.result)
          THEN [act |-> "yield", site |-> "err",
                val |-> AsyncResult(Err(unwrap_err(out.val.result).val))]
          ELSE [act |-> "store", site |-> "none",
                val |-> unwrap(out.val.result).val])

\* The awaited computation completes and the generator resumes.
ADoResume ==
    /\ prog = "async_do" /\ pc = "await"
    /\ co' = [co EXCEPT ![level] = "done"]
    /\ LET step == ADoStep(CoroOutcome(level)) IN
       CASE step.act = "yield" ->
                /\ yielded' = Append(yielded, step.val)
                /\ site' = step.site /\ pc' = "block"
                /\ UNCHANGED <<raised, results, level>>
         [] step.act = "raise" ->
                /\ pc' = "raised" /\ raised' = step.val
                /\ UNCHANGED <<yielded, site, results, level>>
         [] OTHER ->
                /\ results' = [nm \in DOMAIN results \cup {NameOf[level]} |->
                                 IF nm = NameOf[level] THEN step.val
                                 ELSE results[nm]]
                /\ level' = level + 1 /\ pc' = "loop"
                /\ UNCHANGED <<raised, yielded, site>>
    /\ UNCHANGED callVars
    /\ UNCHANGED <<prog, ret, log, kind, n, x, stepOut, bodyOut, fnOut,
                   container, bound, gen, exc, invoked, order, bodyRuns>>

\* "yield cls(Ok(results))" once the loop is exhausted.
ADoYieldOk ==
    /\ prog = "async_do" /\ pc = "loop" /\ level > n
    /\ yielded' = Append(yielded, AsyncResult(Ok(results)))
    /\ site' = "ok" /\ pc' = "block"
    /\ UNCHANGED callVars
    /\ UNCHANGED <<prog, raised, ret, log, kind, n, x, stepOut, bodyOut, fnOut,
                   level, container, bound, gen, exc, invoked, order,
                   bodyRuns, co, results>>

\* The block of the async with statement runs with the yielded value.
ABlock ==
    /\ prog = "async_do" /\ pc = "block"
    /\ bodyRuns' = bodyRuns + 1
    /\ exc' = (IF bodyOut = "raise" THEN BodyFault ELSE NoExc)
    /\ pc' = "aexit"
    /\ UNCHANGED callVars
    /\ UNCHANGED <<prog, raised, ret, log, kind, n, x, stepOut, bodyOut, fnOut,
                   level, container, bound, gen, invoked, order, co, results,
                   yielded, site>>

\* __aexit__: the generator is resumed at its yield and returns, or the
\* block's exception is thrown into it there.  The yields of the try block
\* ("err", "ok") are covered by the except clause, which yields once more;
\* the yield of the except clause itself is not, so the exception goes on.
ADoExit ==
    /\ prog = "async_do" /\ pc = "aexit"
    /\ exc' = NoExc
    /\ IF exc = NoExc
       THEN /\ pc' = "after"
            /\ UNCHANGED <<raised, yielded, site>>
       ELSE IF site \in {"err", "ok"} /\ ADoHandles(exc)
            THEN /\ yielded' = Append(yielded, AsyncResult(Err(exc)))
                 /\ site' = "except"
                 /\ pc' = "raised" /\ raised' = DidntStop
            ELSE /\ pc' = "raised" /\ raised' = exc
                 /\ UNCHANGED <<yielded, site>>
    /\ UNCHANGED callVars
    /\ UNCHANGED <<prog, ret, log, kind, n, x, stepOut, bodyOut, fnOut, level,
                   container, bound, gen, invoked, order, bodyRuns, co,
                   results>>

-----------------------------------------------------------------------------
(* The lifting decorators *)

\* Faulty variant of ResultWrapper: every returned value is wrapped in Ok.
ResultWrapperAlwaysOk(out) ==
    IF out.how = "raise" THEN Raise(out.val) ELSE Return(Ok(out.val))

\* result(fn)'s wrapper: "result = fn(*args, **kwargs)" and
\* "return Err(result) if result is None else Ok(result)"; no try around it.
ResultWrapper(out) ==
    IF out.how = "raise" THEN Raise(out.val)
    ELSE IF out.val = PyNone THEN Return(Err(out.val))
    ELSE Return(Ok(out.val))

\* Faulty variant of AsyncWrapper: no try around the await.
AsyncWrapperNoExcept(out) ==
    IF out.how = "raise" THEN Raise(out.val)
    ELSE Return(AsyncResult(Ok(out.val)))

\* async_result(fn)'s wrapper, once the awaited fn has completed:
\* "return AsyncResult(Ok(result))", "except Exception as e: return
\* AsyncResult(Err(e))".
AsyncWrapper(out) ==
    IF out.how = "raise"
    THEN (IF IsException(out.val) THEN Return(AsyncResult(Err(out.val)))
                                  ELSE Raise(out.val))
    ELSE Return(AsyncResult(Ok(out.val)))

\* option(fn)'s wrapper: "return Nothing if fn(*args, **kwargs) is None else
\* Some(fn(*args, **kwargs))": fn is called, and called again when its first
\* result is not None.  first and second are the outcomes of the two calls.
OptionWrapper(first, second) ==
    IF first.how = "raise" THEN Called(first)
    ELSE IF first.val = PyNone THEN Called(Return(Nothing))
    ELSE [out |-> (IF second.how = "raise" THEN second
                   ELSE Return(Some(second.val))),
          calls |-> 2]

\* The caller's end of a decorated call: a value or an exception.
Deliver(out) ==
    /\ pc' = (IF out.how = "raise" THEN "raised" ELSE "returned")
    /\ raised' = (IF out.how = "raise" THEN out.val ELSE NoExc)
    /\ ret' = (IF out.how = "raise" THEN Unset ELSE out.val)

\* A call of the function result(fn) returned.
ResultCall ==
    /\ prog = "result_dec" /\ pc = "call"
    /\ invoked' = [invoked EXCEPT ![1] = @ + 1]
    /\ Deliver(ResultWrapper(fnOut))
    /\ UNCHANGED callVars
    /\ UNCHANGED <<prog, log, kind, n, x, stepOut, bodyOut, fnOut, level,
                   container, bound, gen, exc, order, bodyRuns, co, results,
                   yielded, site>>

\* A call of the function option(fn) returned.
OptionCall ==
    /\ prog = "option_dec" /\ pc = "call"
    /\ LET r == OptionWrapper(fnOut, fnOut2) IN
       /\ invoked' = [invoked EXCEPT ![1] = @ + r.calls]
       /\ Deliver(r.out)
    /\ UNCHANGED callVars
    /\ UNCHANGED <<prog, log, kind, n, x, stepOut, bodyOut, fnOut, level,
                   container, bound, gen, exc, order, bodyRuns, co, results,
                   yielded, site>>

\* "result = await fn(*args, **kwargs)": the wrapper starts fn and suspends.
AsyncCallAwait ==
    /\ prog = "async_dec" /\ pc = "call"
    /\ invoked' = [invoked EXCEPT ![1] = @ + 1]
    /\ co' = [co EXCEPT ![1] = "running"]
    /\ pc' = "await"
    /\ UNCHANGED callVars
    /\ UNCHANGED <<prog, raised, ret, log, kind, n, x, stepOut, bodyOut, fnOut,
                   level, container, bound, gen, exc, order, bodyRuns,
                   results, yielded, site>>

\* fn completes and the wrapper returns to whoever awaits it.
AsyncCallResume ==
    /\ prog = "async_dec" /\ pc = "await"
    /\ co' = [co EXCEPT ![1] = "done"]
    /\ Deliver(AsyncWrapper(fnOut))
    /\ UNCHANGED callVars
    /\ UNCHANGED <<prog, log, kind, n, x, stepOut, bodyOut, fnOut, level,
                   container, bound, gen, exc, invoked, order, bodyRuns,
                   results, yielded, site>>

-----------------------------------------------------------------------------
(* Methods of Option and Result, and the functions callers pass to them *)

PyTuple(v) == [cls |-> "tuple", items |-> <<v>>]

PyBool(b) == [cls |-> "bool", b |-> b]

\* Payloads of containers: values, the absence markers None and Nothing, and
\* a string as used for errors.
Payloads == {PyInt(k) : k \in 0..MaxVal} \cup {PyNone, Nothing, PyStr("Error")}

\* The Option values a caller can construct: Nothing and Some(v).
Options == {Nothing} \cup {Some(v) : v \in Payloads}

\* The Result values a caller can construct: Ok(v) and Err(e).
Results == {Ok(v) : v \in Payloads} \cup {Err(e) : e \in Payloads}

IsOption(v) == v.tag \in {"Some", "Nothing"}

IsResult(v) == v.tag \in {"Ok", "Err"}

\* The fault a caller's function raises.
FnFault == PyExc("ValueError", "bad")

\* The functions a caller passes: lambda v: (v,), lambda v: None,
\* lambda v: Nothing, lambda v: Some(v), lambda v: Ok(v),
\* lambda v: Err("bad"), lambda v: True, lambda v: False, and a function
\* that raises.
Fns == {"tup", "none", "nothing", "some", "ok", "err", "true", "false", "raise"}

Apply(fn, v) ==
    CASE fn = "tup" -> Return(PyTuple(v))
      [] fn = "none" -> Return(PyNone)
      [] fn = "nothing" -> Return(Nothing)
      [] fn = "some" -> Return(Some(v))
      [] fn = "ok" -> Return(Ok(v))
      [] fn = "err" -> Return(Err(PyStr("bad")))
      [] fn = "true" -> Return(PyBool(TRUE))
      [] fn = "false" -> Return(PyBool(FALSE))
      [] OTHER -> Raise(FnFault)

\* bool(v), as the conditional expression of filter_by_predicate takes it.
Truthy(v) == v \notin {PyNone, PyBool(FALSE), PyInt(0)}

\* Faulty variant of Option_fmap: a fault of fn is caught and turned into
\* Nothing.
Option_fmapCatch(self, fn) ==
    IF is_some(self)
    THEN LET r == Apply(fn, self.value) IN
         Called(IF r.how = "raise" THEN Return(Nothing) ELSE Return(Some(r.val)))
    ELSE NotCalled(Return(self))

\* Some.fmap: "return Some(fn(self.value))"; Nothing.fmap: "return self".
Option_fmap(self, fn) ==
    IF is_some(self)
    THEN LET r == Apply(fn, self.value) IN
         Called(IF r.how = "raise" THEN r ELSE Return(Some(r.val)))
    ELSE NotCalled(Return(self))

\* Some.and_then: "return fn(self.value)"; Nothing.and_then: "return self".
Option_and_then(self, fn) ==
    IF is_some(self) THEN Called(Apply(fn, self.value))
    ELSE NotCalled(Return(self))

\* Some.filter_by_predicate: "return Some(self.value) if
\* predicate(self.value) else Nothing"; Nothing's: "return self".
Option_filter_by_predicate(self, predicate) ==
    IF is_some(self)
    THEN LET r == Apply(predicate, self.value) IN
         Called(IF r.how = "raise" THEN r
                ELSE Return(IF Truthy(r.val) THEN Some(self.value)
                                             ELSE Nothing))
    ELSE NotCalled(Return(self))

\* Faulty variant of Option_ok_or: Some.ok_or is a copy of Nothing.ok_or.
Option_ok_orErr(self, error) == Err(error)

\* Some.ok_or: "return Ok(self.value)"; Nothing.ok_or: "return Err(error)".
Option_ok_or(self, error) ==
    IF is_some(self) THEN Ok(self.value) ELSE Err(error)

\* Ok.ok: "return Some(self.value)"; Err.ok: "return Nothing".
Result_ok(self) == IF is_ok(self) THEN Some(self.value) ELSE Nothing

\* Ok.err: "return Nothing"; Err.err: "return Some(self.value)".
Result_err(self) == IF is_ok(self) THEN Nothing ELSE Some(self.value)

\* Faulty variant of Result_fmap: Err.fmap is a copy of Err.fmap_err.
Result_fmapBoth(self, fn) ==
    LET r == Apply(fn, self.value) IN
    Called(IF r.how = "raise" THEN r
           ELSE Return(IF is_ok(self) THEN Ok(r.val) ELSE Err(r.val)))

\* Ok.fmap: "return Ok(fn(self.value))"; Err.fmap: "return self".
Result_fmap(self, fn) ==
    IF is_ok(self)
    THEN LET r == Apply(fn, self.value) IN
         Called(IF r.how = "raise" THEN r ELSE Return(Ok(r.val)))
    ELSE NotCalled(Return(self))

\* Ok.fmap_err: "return self"; Err.fmap_err: "return Err(fn(self.value))".
Result_fmap_err(self, fn) ==
    IF is_err(self)
    THEN LET r == Apply(fn, self.value) IN
         Called(IF r.how = "raise" THEN r ELSE Return(Err(r.val)))
    ELSE NotCalled(Return(self))

\* Faulty variant of Result_and_then: Err.and_then is a copy of Err.or_else.
Result_and_thenAlways(self, fn) == Called(Apply(fn, self.value))

\* Ok.and_then: "return fn(self.value)"; Err.and_then: "return self".
Result_and_then(self, fn) ==
    IF is_ok(self) THEN Called(Apply(fn, self.value))
    ELSE NotCalled(Return(self))

\* Ok.or_else: "return self"; Err.or_else: "return fn(self.value)".
Result_or_else(self, fn) ==
    IF is_err(self) THEN Called(Apply(fn, self.value))
    ELSE NotCalled(Return(self))

\* The functions without arguments that callers pass to or_else and
\* unwrap_or_else: "lambda: 0", "lambda: Some(100)", one that returns
\* Nothing and one that raises.
Thunks == {"zero", "some", "nothing", "raise"}

\* fn()
ApplyThunk(fn) ==
    CASE fn = "zero" -> Return(PyInt(0))
      [] fn = "some" -> Return(Some(PyInt(MaxVal)))
      [] fn = "nothing" -> Return(Nothing)
      [] OTHER -> Raise(FnFault)

\* Faulty variant of Option_or_else: fn is called before the variant is
\* looked at.
Option_or_elseEager(self, fn) ==
    LET r == ApplyThunk(fn) IN
    Called(IF r.how = "raise" \/ ~is_some(self) THEN r ELSE Return(self))

\* Some.or_else: "return self"; Nothing.or_else: "return fn()".
Option_or_else(self, fn) ==
    IF is_some(self) THEN NotCalled(Return(self))
    ELSE Called(ApplyThunk(fn))

\* Some.unwrap_or_else: "return self.value"; Nothing.unwrap_or_else:
\* "return fn()".
Option_unwrap_or_else(self, fn) ==
    IF is_some(self) THEN NotCalled(Return(self.value))
    ELSE Called(ApplyThunk(fn))

\* v is one of the library's containers.
IsContainer(v) == "tag" \in DOMAIN v

\* Faulty variant of PyEq: the __eq__ of the base classes Option and Result,
\* which compares self.ok().unwrap() with other.ok().unwrap() (and the same
\* with err()), is the one that runs.
PyEqBase(a, b) ==
    IF IsResult(a)
    THEN IF ~IsResult(b) \/ a.tag # b.tag THEN Return(PyBool(FALSE))
         ELSE LET mine == unwrap(Some(a.value))
                  theirs == unwrap(Some(b.value))
              IN  IF mine.how = "raise" THEN mine
                  ELSE IF theirs.how = "raise" THEN theirs
                  ELSE Return(PyBool(mine.val = theirs.val))
    ELSE IF ~IsOption(b) THEN Return(PyBool(FALSE))
         ELSE Return(PyBool(a = b))

\* a == b on containers: Some, Nothing, Ok and Err are dataclasses, and the
\* __eq__ that dataclass generates in each class is the one that runs: for
\* two instances of the same class it compares the tuples of fields, for any
\* other operand it returns NotImplemented, and == is then False (the
\* operands are different objects).
PyEq(a, b) ==
    IF IsContainer(b) /\ a.tag = b.tag
    THEN Return(PyBool(IF a.tag = "Nothing" THEN TRUE ELSE a.value = b.value))
    ELSE Return(PyBool(FALSE))

RECURSIVE flatten(_)

\* Faulty variant of flatten: one level is removed ("return inner").
flattenOnce(f) ==
    IF IsContainer(f) /\ f.tag = "Some" /\ IsContainer(f.value)
          /\ IsOption(f.value)
    THEN f.value
    ELSE IF IsContainer(f) /\ f.tag = "Ok" /\ IsContainer(f.value)
               /\ IsResult(f.value) /\ ~is_err(f.value)
         THEN f.value
         ELSE f

\* flatten: "case Some(inner) if isinstance(inner, Option): return
\* flatten(inner)", "case Ok(inner) if isinstance(inner, Result) and not
\* isinstance(inner, Err): return flatten(inner)", "case _: return f".
flatten(f) ==
    IF IsContainer(f) /\ f.tag = "Some" /\ IsContainer(f.value)
          /\ IsOption(f.value)
    THEN flatten(f.value)
    ELSE IF IsContainer(f) /\ f.tag = "Ok" /\ IsContainer(f.value)
               /\ IsResult(f.value) /\ ~is_err(f.value)
         THEN flatten(f.value)
         ELSE f

\* A method call of the caller's expression: the method, the function
\* passed (if any) and the value passed (if any).
Call(m, fn, arg) == [m |-> m, fn |-> fn, arg |-> arg]

\* The call c made on the value v: the constructor Some(arg), or the method
\* of v's class.
Invoke(v, c) ==
    CASE c.m = "Some" -> NotCalled(Return(Some(c.arg)))
      [] c.m = "flatten" -> NotCalled(Return(flatten(v)))
      [] c.m = "__eq__" -> NotCalled(PyEq(v, c.arg))
      [] c.m = "unwrap" -> NotCalled(unwrap(v))
      [] c.m = "unwrap_err" /\ IsResult(v) -> NotCalled(unwrap_err(v))
      [] c.m = "fmap" /\ IsOption(v) -> Option_fmap(v, c.fn)
      [] c.m = "and_then" /\ IsOption(v) -> Option_and_then(v, c.fn)
      [] c.m = "filter_by_predicate" /\ IsOption(v) ->
             Option_filter_by_predicate(v, c.fn)
      [] c.m = "or_else" /\ IsOption(v) -> Option_or_else(v, c.fn)
      [] c.m = "unwrap_or_else" /\ IsOption(v) ->
             Option_unwrap_or_else(v, c.fn)
      [] c.m = "ok_or" /\ IsOption(v) -> NotCalled(Return(Option_ok_or(v, c.arg)))
      [] c.m = "ok" /\ IsResult(v) -> NotCalled(Return(Result_ok(v)))
      [] c.m = "err" /\ IsResult(v) -> NotCalled(Return(Result_err(v)))
      [] c.m = "fmap" /\ IsResult(v) -> Result_fmap(v, c.fn)
      [] c.m = "fmap_err" /\ IsResult(v) -> Result_fmap_err(v, c.fn)
      [] c.m = "and_then" /\ IsResult(v) -> Result_and_then(v, c.fn)
      [] c.m = "or_else" /\ IsResult(v) -> Result_or_else(v, c.fn)
      [] OTHER -> NotCalled(Raise(PyExc("AttributeError", c.m)))

\* The variables of the do-notation and decorator programs that a method
\* call leaves alone.
doVars == <<log, kind, n, x, stepOut, bodyOut, fnOut, level, container,
            bound, gen, exc, invoked, order, bodyRuns, co, results, yielded,
            site>>

\* The next call of the chain is made on the current value; a fault ends
\* the expression, the last call's value is the expression's value.
ChainStep ==
    /\ prog = "chain" /\ pc = "call" /\ pos < Len(chain)
    /\ LET r == Invoke(cur, chain[pos + 1]) IN
       /\ fcalls' = [fcalls EXCEPT ![pos + 1] = r.calls]
       /\ pos' = pos + 1
       /\ IF r.out.how = "raise"
          THEN /\ pc' = "raised" /\ raised' = r.out.val
               /\ UNCHANGED <<cur, ret>>
          ELSE /\ cur' = r.out.val
               /\ raised' = raised
               /\ pc' = (IF pos + 1 = Len(chain) THEN "returned" ELSE "call")
               /\ ret' = (IF pos + 1 = Len(chain) THEN r.out.val ELSE ret)
    /\ UNCHANGED <<prog, recv, chain, fnOut2, taken>>
    /\ UNCHANGED doVars

-----------------------------------------------------------------------------
(* The combinators of AsyncResult: fmap, fmap_err, and_then, or_else *)

\* A coroutine object: awaiting it completes as `completes` says.
Coroutine(completes) == [cls |-> "coroutine", completes |-> completes]

\* An awaitable that is not a coroutine object (an asyncio Future or Task)
\* and has not completed yet.
Future(completes) ==
    [cls |-> "Future", state |-> "pending", completes |-> completes]

\* asyncio.iscoroutine(result)
iscoroutine(v) == "cls" \in DOMAIN v /\ v.cls = "coroutine"

\* The functions a caller passes to a combinator of AsyncResult: they return
\* a plain value, raise, return a coroutine that completes or raises, or
\* return a Future.
AsyncFns == {"plain", "plain_raise", "coro", "coro_raise", "future"}

AsyncMethods == {"fmap", "fmap_err", "and_then", "or_else"}

\* What the function computes from v: a value for fmap / fmap_err, an
\* AsyncResult for and_then / or_else.
AFnValue(m, v) ==
    IF m \in {"fmap", "fmap_err"} THEN PyTuple(v)
    ELSE AsyncResult(Ok(PyTuple(v)))

\* The call fn(value) itself.
AApply(fn, m, v) ==
    CASE fn = "plain" -> Return(AFnValue(m, v))
      [] fn = "plain_raise" -> Raise(FnFault)
      [] fn = "coro" -> Return(Coroutine(Return(AFnValue(m, v))))
      [] fn = "coro_raise" -> Return(Coroutine(Raise(FnFault)))
      [] OTHER -> Return(Future(Return(AFnValue(m, v))))

\* The test at the head of the combinator: fmap and and_then apply fn to an
\* Ok ("if not self._result.is_ok(): return self"), fmap_err and or_else to
\* an Err.
AApplies(m, r) == IF m \in {"fmap", "and_then"} THEN is_ok(r) ELSE is_err(r)

\* What the combinator returns once fn's result new_result is there:
\* AsyncResult(Ok(new_result)), AsyncResult(Err(new_result)), or new_result
\* itself for and_then / or_else.
AFinish(m, new_result) ==
    CASE m = "fmap" -> AsyncResult(Ok(new_result))
      [] m = "fmap_err" -> AsyncResult(Err(new_result))
      [] OTHER -> new_result

\* The combinator runs up to its first suspension: it reads self._result,
\* returns self or calls fn with the payload, and awaits fn's result if
\* that is a coroutine.
ACombCall ==
    /\ prog = "async_comb" /\ pc = "call"
    /\ pos' = 1
    /\ LET m == chain[1].m IN
       IF ~AApplies(m, recv)
       THEN /\ taken' = [branch |-> "self", from |-> recv, arg |-> Unset]
            /\ Deliver(Return(AsyncResult(recv)))
            /\ UNCHANGED <<fcalls, cur>>
       ELSE /\ taken' = [branch |-> "apply", from |-> recv,
                         arg |-> (IF is_ok(recv) THEN unwrap(recv).val
                                                 ELSE unwrap_err(recv).val)]
            /\ fcalls' = [fcalls EXCEPT ![1] = @ + 1]
            /\ LET r == AApply(chain[1].fn, m, taken'.arg) IN
               IF r.how = "raise"
               THEN Deliver(r) /\ cur' = cur
               ELSE IF iscoroutine(r.val)
                    THEN /\ pc' = "await" /\ cur' = r.val
                         /\ UNCHANGED <<raised, ret>>
                    ELSE Deliver(Return(AFinish(m, r.val))) /\ cur' = cur
    /\ UNCHANGED <<prog, recv, chain, fnOut2>>
    /\ UNCHANGED doVars

\* While the combinator is suspended another task rebinds the receiver's
\* _result.
AInterfere ==
    /\ prog = "async_comb" /\ pc = "await"
    /\ recv' \in {Ok(PyStr("changed")), Err(PyStr("changed"))} \ {recv}
    /\ UNCHANGED <<prog, pc, raised, ret, chain, cur, pos, fcalls, fnOut2,
                   taken>>
    /\ UNCHANGED doVars

\* Faulty variant of ACombResume: the variant of self._result is tested
\* again after the await.
ACombResumeRecheck ==
    /\ prog = "async_comb" /\ pc = "await"
    /\ IF cur.completes.how = "raise"
       THEN Deliver(cur.completes)
       ELSE IF AApplies(chain[1].m, recv)
            THEN Deliver(Return(AFinish(chain[1].m, cur.completes.val)))
            ELSE Deliver(Return(AsyncResult(recv)))
    /\ UNCHANGED <<prog, recv, chain, cur, pos, fcalls, fnOut2, taken>>
    /\ UNCHANGED doVars

\* The awaited coroutine completes and the combinator returns, or the
\* coroutine's fault leaves the combinator.
ACombResume ==
    /\ prog = "async_comb" /\ pc = "await"
    /\ IF cur.completes.how = "raise"
       THEN Deliver(cur.completes)
       ELSE Deliver(Return(AFinish(chain[1].m, cur.completes.val)))
    /\ UNCHANGED <<prog, recv, chain, cur, pos, fcalls, fnOut2, taken>>
    /\ UNCHANGED doVars

-----------------------------------------------------------------------------
(* The specification *)

\* Inputs of a chain of n steps: the steps beyond n do not exist.
StepInputs(len) ==
    {f \in [AllSteps -> StepOutcomes] : \A i \in AllSteps : i > len => f[i] = "succ"}

InitState ==
    /\ raised = NoExc /\ ret = Unset /\ log = <<>>
    /\ level = 1
    /\ container = [i \in AllSteps |-> Unset]
    /\ bound = [i \in AllSteps |-> Unset]
    /\ gen = [i \in AllSteps |-> "notstarted"]
    /\ exc = NoExc
    /\ invoked = [i \in AllSteps |-> 0]
    /\ order = <<>>
    /\ bodyRuns = 0
    /\ co = [i \in AllSteps |-> "created"]
    /\ results = <<>>
    /\ yielded = <<>>
    /\ site = "none"

InitSyncDo ==
    /\ prog = "sync_do" /\ pc = "eval"
    /\ kind \in {"Option", "Result"}
    /\ n \in 1..MaxSteps
    /\ x \in 0..MaxVal
    /\ stepOut \in StepInputs(n)
    /\ bodyOut \in {"normal", "raise"}
    /\ fnOut = Return(PyNone)

InitAsyncDo ==
    /\ prog = "async_do" /\ pc = "loop"
    /\ kind = "Result"
    /\ n \in 0..MaxSteps
    /\ x \in 0..MaxVal
    /\ stepOut \in StepInputs(n)
    /\ bodyOut \in {"normal", "raise"}
    /\ fnOut = Return(PyNone)

InitDecorated ==
    /\ prog \in {"result_dec", "async_dec"} /\ pc = "call"
    /\ kind = "Result"
    /\ n = 1 /\ x = 0
    /\ stepOut = [i \in AllSteps |-> "succ"]
    /\ bodyOut = "normal"
    /\ fnOut \in FnOutcomes

\* The programs without a method chain.
NoCall ==
    /\ recv = Unset /\ chain = <<>> /\ cur = Unset /\ pos = 0
    /\ fcalls = [i \in AllSteps |-> 0]
    /\ fnOut2 = Return(PyNone)
    /\ taken = Unset

\* The programs without do-notation.
NoDo ==
    /\ kind = "Result" /\ n = 1 /\ x = 0
    /\ stepOut = [i \in AllSteps |-> "succ"]
    /\ bodyOut = "normal"
    /\ fnOut = Return(PyNone)

\* One call: a constructor call, or a method call on an Option or a Result.
SingleCalls(v) ==
    IF v = Unset
    THEN {Call("Some", "none", a) : a \in Payloads}
    ELSE {Call("unwrap", "none", PyNone)}
         \cup {Call("__eq__", "none", o) : o \in Options \cup Results}
         \cup {Call(m, fn, PyNone) : m \in {"fmap", "and_then"}, fn \in Fns}
         \cup (IF IsOption(v)
               THEN {Call("filter_by_predicate", fn, PyNone) : fn \in Fns}
                    \cup {Call("ok_or", "none", e) : e \in Payloads}
                    \cup {Call(m, fn, PyNone) :
                              m \in {"or_else", "unwrap_or_else"},
                              fn \in Thunks}
               ELSE {Call(m, "none", PyNone) : m \in {"unwrap_err", "ok", "err"}}
                    \cup {Call(m, fn, PyNone) :
                              m \in {"fmap_err", "or_else"}, fn \in Fns})

\* opt.ok_or(e).ok() and opt.ok_or(e).err()
RoundTrips ==
    {<<Call("ok_or", "none", e), Call(m, "none", PyNone)>> :
         e \in Payloads, m \in {"ok", "err"}}

\* v.and_then(f1).and_then(f2)...: each function wraps its argument in the
\* successful variant, returns the failure variant, or raises.
AndThenChains(v) ==
    LET fs == IF IsOption(v) THEN {"some", "nothing", "raise"}
                             ELSE {"ok", "err", "raise"}
    IN  UNION {[1..len -> {Call("and_then", fn, PyNone) : fn \in fs}] :
                   len \in 2..MaxSteps}

\* A call of option(fn): fn may return something else when called again.
InitOptionDec ==
    /\ prog = "option_dec" /\ pc = "call"
    /\ kind = "Result" /\ n = 1 /\ x = 0
    /\ stepOut = [i \in AllSteps |-> "succ"]
    /\ bodyOut = "normal"
    /\ fnOut \in FnOutcomes
    /\ fnOut2 \in FnOutcomes
    /\ recv = Unset /\ chain = <<>> /\ cur = Unset /\ pos = 0
    /\ fcalls = [i \in AllSteps |-> 0]
    /\ taken = Unset

InitChain ==
    /\ prog = "chain" /\ pc = "call"
    /\ NoDo
    /\ recv \in {Unset} \cup Options \cup Results
    /\ chain \in {<<c>> : c \in SingleCalls(recv)}
                 \cup (IF recv \in Options THEN RoundTrips ELSE {})
                 \cup (IF recv = Unset THEN {} ELSE AndThenChains(recv))
    /\ cur = recv
    /\ pos = 0
    /\ fcalls = [i \in AllSteps |-> 0]
    /\ fnOut2 = Return(PyNone)
    /\ taken = Unset

RECURSIVE Nestings(_)

\* The values nested at most d containers deep.
Nestings(d) ==
    IF d = 0 THEN {PyInt(MaxVal), PyNone, Nothing}
    ELSE LET inner == Nestings(d - 1) IN
         inner \cup {Some(v) : v \in inner} \cup {Ok(v) : v \in inner}
               \cup {Err(v) : v \in inner}

\* flatten(x) and flatten(flatten(x)) for a nested container x.
InitFlatten ==
    /\ prog = "chain" /\ pc = "call"
    /\ NoDo
    /\ recv \in {c \in Nestings(MaxDepth) : IsContainer(c)}
    /\ chain \in {[i \in 1..len |-> Call("flatten", "none", PyNone)] :
                      len \in 1..2}
    /\ cur = recv
    /\ pos = 0
    /\ fcalls = [i \in AllSteps |-> 0]
    /\ fnOut2 = Return(PyNone)
    /\ taken = Unset

\* An awaited call of a combinator on AsyncResult(recv).
InitAsyncComb ==
    /\ prog = "async_comb" /\ pc = "call"
    /\ NoDo
    /\ recv \in Results
    /\ chain \in {<<Call(m, fn, PyNone)>> : m \in AsyncMethods, fn \in AsyncFns}
    /\ cur = Unset
    /\ pos = 0
    /\ fcalls = [i \in AllSteps |-> 0]
    /\ fnOut2 = Return(PyNone)
    /\ taken = Unset

Init ==
    /\ InitState
    /\ \/ NoCall /\ (InitSyncDo \/ InitAsyncDo \/ InitDecorated)
       \/ InitOptionDec
       \/ InitChain
       \/ InitFlatten
       \/ InitAsyncComb

Next ==
    \/ SyncEvalStep
    \/ SyncDoEnter
    \/ SyncBody
    \/ SyncDoExit
    \/ ADoAwait
    \/ ADoResume
    \/ ADoYieldOk
    \/ ABlock
    \/ ADoExit
    \/ ResultCall
    \/ AsyncCallAwait
    \/ AsyncCallResume
    \/ OptionCall
    \/ ChainStep
    \/ ACombCall
    \/ AInterfere
    \/ ACombResume

Spec == Init /\ [][Next]_vars

\* The run is over: control is past the construct, or an exception or a
\* value has reached the caller.
Terminated == pc \in {"after", "raised", "returned"}

TypeOK ==
    /\ prog \in {"sync_do", "async_do", "result_dec", "async_dec",
                "option_dec", "chain", "async_comb"}
    /\ pc \in {"eval", "enter", "body", "exit", "loop", "await", "block",
               "aexit", "call", "after", "raised", "returned"}
    /\ level \in 0..(MaxSteps + 1)
    /\ \A i \in AllSteps : gen[i] \in {"notstarted", "suspended", "finished"}
    /\ \A i \in AllSteps : co[i] \in {"created", "running", "done"}

-----------------------------------------------------------------------------
(* Properties *)

\* Scope i was entered on a container in the failure variant: its generator
\* ran and returned without yielding.
EnteredFailure(i) ==
    /\ container[i] # Unset
    /\ ~DoEnters(kind, container[i])
    /\ gen[i] = "finished"

\* Step k is the first step that is not successful, and it ends as `how`.
FirstNot(k, how) ==
    /\ k \in Steps
    /\ stepOut[k] = how
    /\ \A j \in Steps : j < k => stepOut[j] = "succ"

\* C1: entering a synchronous do scope (Option.do / Result.do) on a
\* container in the failure variant skips the block body, binds no value and
\* raises no exception to the caller: control continues after the scope.
C1_FailureScopeIsSilent ==
    prog = "sync_do" =>
        \A i \in Steps :
            EnteredFailure(i) =>
                /\ bound[i] = Unset
                /\ bodyRuns = 0
                /\ raised = NoExc
                /\ (Terminated => pc = "after")

\* C2: in AsyncResult.do, if step k is the first computation that resolves
\* to Err(e), the construct yields AsyncResult(Err(e)) with exactly step k's
\* error, and no computation after step k is ever started.
C2_FirstErrIsYielded ==
    prog = "async_do" =>
        \A k \in Steps :
            FirstNot(k, "fail") =>
                /\ \A j \in AllSteps :
                       j > k => invoked[j] = 0 /\ co[j] = "created"
                /\ co[k] = "done" =>
                       /\ Len(yielded) >= 1
                       /\ yielded[1] = AsyncResult(Err(PyStr(NameOf[k])))

C2_Witness ==
    /\ prog = "async_do" /\ n = 3 /\ pc = "after"
    /\ FirstNot(2, "fail")
    /\ invoked = [i \in AllSteps |-> IF i <= 2 THEN 1 ELSE 0]
    /\ yielded = <<AsyncResult(Err(PyStr("b")))>>

\* C3: in a nested synchronous chain of three steps where step 1 is
\* successful and step 2 yields the failure variant, step 3's computation is
\* never invoked, the block body never executes and no fault reaches the
\* caller: control falls through to after the outermost scope.
C3_SecondStepFailureFallsThrough ==
    (prog = "sync_do" /\ n >= 3 /\ FirstNot(2, "fail")) =>
        /\ \A j \in AllSteps : j >= 3 => invoked[j] = 0
        /\ bodyRuns = 0
        /\ raised = NoExc
        /\ pc # "raised"
        /\ (Terminated => pc = "after")

C3_Witness ==
    /\ prog = "sync_do" /\ n = 3 /\ FirstNot(2, "fail")
    /\ pc = "after"
    /\ EnteredFailure(2)
    /\ invoked[3] = 0

\* C4: if awaiting a named computation in AsyncResult.do raises a fault, the
\* construct yields AsyncResult(Err(fault)) to the block, the fault is not
\* propagated to the caller, and no later computation is started.
C4_AwaitFaultIsYielded ==
    prog = "async_do" =>
        \A k \in Steps :
            FirstNot(k, "raise") =>
                /\ \A j \in AllSteps :
                       j > k => invoked[j] = 0 /\ co[j] = "created"
                /\ raised # StepFault
                /\ co[k] = "done" =>
                       /\ Len(yielded) >= 1
                       /\ yielded[1] = AsyncResult(Err(StepFault))
                       /\ bodyRuns = 0 => pc = "block"

C4_Witness ==
    /\ prog = "async_do" /\ n = 3 /\ pc = "after"
    /\ FirstNot(2, "raise")
    /\ bodyRuns = 1
    /\ yielded = <<AsyncResult(Err(StepFault))>>

\* C5: a fault raised by the body of a synchronous do scope whose container
\* is successful is caught and logged and never propagates to the caller, at
\* any nesting depth; execution continues after the outermost scope.  The
\* body of the innermost scope is the block; the body of an outer scope also
\* holds the evaluation of the later steps.
C5_BodyFaultIsContained ==
    prog = "sync_do" =>
        /\ (bodyOut = "raise" /\ bodyRuns > 0) =>
               /\ raised = NoExc
               /\ (Terminated => pc = "after")
               /\ gen[n] = "finished" =>
                      log = <<DoLogRecord(kind, BodyFault)>>
        /\ \A k \in Steps :
               (k >= 2 /\ FirstNot(k, "raise") /\ invoked[k] > 0) =>
                   /\ raised = NoExc
                   /\ (Terminated => pc = "after")
                   /\ gen[k - 1] = "finished" =>
                          log = <<DoLogRecord(kind, StepFault)>>

C5_Witness ==
    /\ prog = "sync_do" /\ n = 3 /\ bodyOut = "raise"
    /\ bodyRuns = 1
    /\ pc = "after"
    /\ log = <<DoLogRecord(kind, BodyFault)>>

C7_OneAtATimeInOrder ==
    prog = "async_do" =>
        /\ Cardinality({i \in AllSteps : co[i] = "running"}) <= 1
        /\ \A i \in AllSteps :
               (i > 1 /\ co[i] # "created") => co[i - 1] = "done"
        /\ order = [i \in 1..Len(order) |-> i]
        /\ \A i \in AllSteps : invoked[i] <= 1

C7_Witness ==
    /\ prog = "async_do" /\ n = 3 /\ pc = "await"
    /\ co = [i \in AllSteps |->
               IF i = 1 THEN "done" ELSE IF i = 2 THEN "running" ELSE "created"]

\* C8: in a nested synchronous chain whose steps are all successful, the
\* steps are evaluated in declaration order, each bound name equals the
\* unwrapped value of its step's container (a later step computes from the
\* earlier bound value), and the block body executes exactly once.
C8_AllSuccessBindsInOrder ==
    (prog = "sync_do" /\ \A i \in Steps : stepOut[i] = "succ") =>
        /\ order = [i \in 1..Len(order) |-> i]
        /\ \A i \in Steps :
               gen[i] # "notstarted" =>
                   /\ bound[i] = container[i].value
                   /\ bound[i] = PyInt(x + i)
                   /\ i > 1 => container[i].value = PyInt(bound[i - 1].val + 1)
        /\ bodyRuns <= 1
        /\ bodyRuns = 1 => \A i \in Steps : gen[i] # "notstarted"
        /\ Terminated => (bodyRuns = 1 /\ order = [i \in Steps |-> i])

C8_Witness ==
    /\ prog = "sync_do" /\ n = 3 /\ pc = "after"
    /\ \A i \in Steps : stepOut[i] = "succ"
    /\ bodyOut = "normal"
    /\ bodyRuns = 1
    /\ bound = [i \in AllSteps |-> PyInt(x + i)]

\* C9: a function wrapped by the result decorator never propagates a fault
\* raised by the wrapped function: when fn raises a fault, the wrapper
\* returns Err(fault) with that fault as its payload.
C9_ResultDecoratorCatches ==
    (prog = "result_dec" /\ fnOut.how = "raise" /\ Terminated) =>
        /\ pc = "returned"
        /\ raised = NoExc
        /\ ret = Err(fnOut.val)

\* C10: a function wrapped by async_result always completes with an
\* AsyncResult and never propagates a fault: AsyncResult(Ok(v)) when the
\* wrapped function completes normally with v, AsyncResult(Err(fault)) when
\* it raises fault.
C10_AsyncDecoratorCatches ==
    (prog = "async_dec" /\ Terminated) =>
        /\ pc = "returned"
        /\ raised = NoExc
        /\ fnOut.how = "return" => ret = AsyncResult(Ok(fnOut.val))
        /\ fnOut.how = "raise" => ret = AsyncResult(Err(fnOut.val))

C10_Witness ==
    /\ prog = "async_dec" /\ pc = "returned"
    /\ fnOut = Raise(BodyFault)
    /\ invoked[1] = 1
    /\ ret = AsyncResult(Err(BodyFault))

-----------------------------------------------------------------------------
(* Properties of the methods of Option and Result *)

\* The caller's expression is the single call of method m.
SingleCall(m) == prog = "chain" /\ Len(chain) = 1 /\ chain[1].m = m

\* The == of two containers: the __eq__ that dataclass generates for Some,
\* Nothing, Ok and Err compares the class and the fields.
DataclassEq(a, b) ==
    /\ a.tag = b.tag
    /\ a.tag # "Nothing" => a.value = b.value

NoAbsentInSome(o) ==
    /\ IsOption(o)
    /\ is_some(o) => o.value \notin {PyNone, Nothing}

\* C12: no Option produced by the Some constructor, by Option.fmap or
\* filter_by_predicate, by Result.ok() / Result.err() or by the option
\* decorator is a Some whose inner value is None or Nothing; Some(None) and
\* Some(Nothing) are Nothing.
C12_SomeNeverWrapsAbsence ==
    /\ (prog = "chain" /\ Len(chain) = 1 /\ pc = "returned") =>
           /\ chain[1].m \in {"Some", "filter_by_predicate", "ok", "err"} =>
                  NoAbsentInSome(ret)
           /\ (chain[1].m = "fmap" /\ IsOption(recv)) => NoAbsentInSome(ret)
           /\ (chain[1].m = "Some" /\ chain[1].arg \in {PyNone, Nothing}) =>
                  ret = Nothing
    /\ (prog = "option_dec" /\ pc = "returned") => NoAbsentInSome(ret)

C12_Witness ==
    /\ SingleCall("fmap") /\ is_some(recv) /\ chain[1].fn = "none"
    /\ pc = "returned"
    /\ fcalls[1] = 1
    /\ ret = Nothing

\* C13: the Result-to-Option conversions are total and lossless for every
\* payload: Ok(v).ok() is a Some holding v and Ok(v).err() is Nothing,
\* Err(e).err() is a Some holding e and Err(e).ok() is Nothing; hence
\* r.ok().is_some() equals r.is_ok() and r.err().is_some() equals r.is_err().
C13_ConversionsLossless ==
    /\ (SingleCall("ok") /\ pos = 1) =>
           /\ pc = "returned"
           /\ is_some(ret) = is_ok(recv)
           /\ is_ok(recv) => (is_some(ret) /\ ret.value = recv.value)
           /\ is_err(recv) => ret = Nothing
    /\ (SingleCall("err") /\ pos = 1) =>
           /\ pc = "returned"
           /\ is_some(ret) = is_err(recv)
           /\ is_err(recv) => (is_some(ret) /\ ret.value = recv.value)
           /\ is_ok(recv) => ret = Nothing

\* C14: conversion round trip: for every value v and error e,
\* Some(v).ok_or(e).ok() == Some(v) and Nothing.ok_or(e).err() == Some(e).
C14_OkOrRoundTrip ==
    (prog = "chain" /\ Len(chain) = 2 /\ chain[1].m = "ok_or" /\ Terminated) =>
        /\ pc = "returned"
        /\ chain[2].m = "ok" => DataclassEq(ret, recv)
        /\ (chain[2].m = "err" /\ recv = Nothing) =>
               DataclassEq(ret, Some(chain[1].arg))

C14_Witness ==
    /\ prog = "chain" /\ Len(chain) = 2 /\ pc = "returned"
    /\ chain[1] = Call("ok_or", "none", PyStr("Error"))
    /\ chain[2].m = "ok"
    /\ recv = Some(PyInt(1))
    /\ ret = Some(PyInt(1))

\* C15: Result.fmap transforms only Ok and Result.fmap_err transforms only
\* Err: Ok(v).fmap(f) == Ok(f(v)) and Err(e).fmap_err(f) == Err(f(e)) with f
\* invoked exactly once; Err(e).fmap(f) == Err(e) and Ok(v).fmap_err(f) ==
\* Ok(v) with f invoked zero times, variant and payload untouched.
C15_FmapOneChannel ==
    \A m \in {"fmap", "fmap_err"} :
        (SingleCall(m) /\ IsResult(recv) /\ pos = 1) =>
            LET mine == IF m = "fmap" THEN is_ok(recv) ELSE is_err(recv)
                fv == Apply(chain[1].fn, recv.value)
            IN  /\ mine => fcalls[1] = 1
                /\ (mine /\ fv.how = "return") =>
                       /\ pc = "returned"
                       /\ DataclassEq(ret, IF m = "fmap" THEN Ok(fv.val)
                                                         ELSE Err(fv.val))
                /\ ~mine =>
                       /\ fcalls[1] = 0
                       /\ pc = "returned"
                       /\ DataclassEq(ret, recv)

C15_Witness ==
    /\ SingleCall("fmap") /\ recv = Err(PyStr("Error"))
    /\ chain[1].fn = "tup"
    /\ pc = "returned"
    /\ ret = Err(PyStr("Error"))
    /\ fcalls[1] = 0

\* The caller's expression is recv.and_then(f1).and_then(f2)...
AndThenChain == prog = "chain" /\ \A i \in 1..Len(chain) : chain[i].m = "and_then"

\* The first failure of an and_then chain is produced at k: by the receiver
\* (k = 0) or by the function of call k, after successes only.
FirstFailure(k) ==
    IF k = 0 THEN recv = Nothing \/ is_err(recv)
    ELSE /\ is_some(recv) \/ is_ok(recv)
         /\ \A j \in 1..(k - 1) : chain[j].fn \in {"some", "ok"}
         /\ chain[k].fn = (IF IsOption(recv) THEN "nothing" ELSE "err")

FailureAt(k) ==
    IF k = 0 THEN recv
    ELSE IF IsOption(recv) THEN Nothing ELSE Err(PyStr("bad"))

\* C16: for every e and f, Err(e).and_then(f) == Err(e) and
\* Nothing.and_then(f) == Nothing with f never invoked; so in any chain of
\* and_then steps the result is the first failure produced and no step after
\* it is invoked.
C16_AndThenShortCircuits ==
    AndThenChain =>
        \A k \in 0..Len(chain) :
            FirstFailure(k) =>
                /\ \A i \in 1..Len(chain) : i > k => fcalls[i] = 0
                /\ pos >= k => DataclassEq(cur, FailureAt(k))
                /\ pc # "raised"
                /\ Terminated =>
                       /\ pos = Len(chain)
                       /\ DataclassEq(ret, FailureAt(k))

C16_Witness ==
    /\ AndThenChain /\ Len(chain) = 3 /\ pc = "returned"
    /\ recv = Ok(PyInt(0))
    /\ FirstFailure(2)
    /\ fcalls = [i \in AllSteps |-> IF i <= 2 THEN 1 ELSE 0]
    /\ ret = Err(PyStr("bad"))

-----------------------------------------------------------------------------
(* Properties of the combinators of AsyncResult *)

\* The combinator of this run has made its dispatch decision.
ADispatched == prog = "async_comb" /\ pos = 1

\* C17: for AsyncResult.fmap, fmap_err, and_then and or_else the Ok-vs-Err
\* decision and the payload passed to the function are fixed from the
\* wrapped Result before the first suspension; nothing that interleaves
\* while the function's computation is suspended changes the branch taken
\* or the argument the function received.
C17_DispatchBeforeSuspension ==
    ADispatched =>
        LET m == chain[1].m
            applies == AApplies(m, taken.from)
        IN  /\ taken.branch = (IF applies THEN "apply" ELSE "self")
            /\ applies => (taken.arg = taken.from.value /\ fcalls[1] = 1)
            /\ ~applies => fcalls[1] = 0
            /\ pc = "await" => (applies /\ cur = AApply(chain[1].fn, m, taken.arg).val)
            /\ (pc = "returned" /\ applies /\ chain[1].fn \in {"plain", "coro"}) =>
                   ret = AFinish(m, AFnValue(m, taken.from.value))
            /\ (pc = "returned" /\ ~applies) => ret = AsyncResult(taken.from)

C17_Witness ==
    /\ ADispatched /\ pc = "returned"
    /\ chain[1] = Call("fmap", "coro", PyNone)
    /\ taken.from = Ok(PyInt(1))
    /\ recv = Err(PyStr("changed"))
    /\ ret = AsyncResult(Ok(PyTuple(PyInt(1))))

\* A computation that has not completed.
IsPending(v) == "state" \in DOMAIN v /\ v.state = "pending"

\* C18: AsyncResult.fmap on Ok(v) returns AsyncResult(Ok(r)) and fmap_err on
\* Err(e) returns AsyncResult(Err(r)), where r is the completed result of
\* the transformation when it returns a suspended computation and the
\* returned value itself when it returns a plain value; the returned
\* container never wraps a computation that has not completed.
C18_FmapWrapsCompletedResult ==
    (ADispatched /\ chain[1].m \in {"fmap", "fmap_err"}
         /\ taken.branch = "apply" /\ pc = "returned") =>
        /\ ret = AFinish(chain[1].m, PyTuple(taken.arg))
        /\ ~IsPending(ret.result.value)

\* C19: AsyncResult.and_then invokes its function exactly once when the
\* wrapped Result is Ok and returns that function's AsyncResult, and or_else
\* does the same when the wrapped Result is Err; on the other channel each
\* returns an AsyncResult equal to the receiver and invokes the function
\* zero times.
C19_AndThenOrElse ==
    (ADispatched /\ chain[1].m \in {"and_then", "or_else"}) =>
        /\ taken.branch = "apply" =>
               /\ fcalls[1] = 1
               /\ pc = "returned" => ret = AsyncResult(Ok(PyTuple(taken.arg)))
        /\ taken.branch = "self" =>
               /\ fcalls[1] = 0
               /\ pc = "returned"
               /\ ret = AsyncResult(taken.from)

\* The combinators that take a function.
Combinators ==
    {"fmap", "fmap_err", "and_then", "or_else", "filter_by_predicate"}

\* Call i of the chain was a combinator that invoked a raising function.
FnRaisedAt(i) ==
    /\ prog = "chain" /\ i <= pos
    /\ chain[i].m \in Combinators
    /\ chain[i].fn = "raise"
    /\ fcalls[i] = 1

\* The combinator of AsyncResult invoked a function that raised, at once or
\* in its coroutine, and the combinator is not suspended.
AFnRaised ==
    /\ ADispatched /\ pc # "await"
    /\ taken.branch = "apply"
    /\ chain[1].fn \in {"plain_raise", "coro_raise"}

\* C20: a fault raised by the function passed to fmap, fmap_err, and_then,
\* or_else or filter_by_predicate (on Option, Result or AsyncResult, outside
\* any do-notation scope) propagates to the immediate caller; the combinator
\* never catches it and never converts it into Nothing or Err.
C20_FnFaultPropagates ==
    /\ \A i \in 1..MaxSteps :
           FnRaisedAt(i) =>
               /\ pc = "raised" /\ raised = FnFault
               /\ pos = i /\ ret = Unset
    /\ AFnRaised => (pc = "raised" /\ raised = FnFault /\ ret = Unset)

C20_Witness ==
    /\ SingleCall("fmap") /\ FnRaisedAt(1)
    /\ recv = Some(PyInt(1))
    /\ pc = "raised" /\ raised = FnFault

-----------------------------------------------------------------------------
(* Properties of the decorators, of equality, of the lazy methods and of
   flatten *)

\* The decorated function wraps a function of its input: called again with
\* the same arguments it returns the same value.
FnIsFunction == fnOut.how = "return" /\ fnOut2 = fnOut

\* C21: for a wrapped function fn that returns the absence marker (None) on
\* some inputs and a value v otherwise, the option-decorated function
\* returns Nothing on the absent inputs and Some(v) otherwise, and the
\* result-decorated function returns Err (with the absence marker as
\* payload) on the absent inputs and Ok(v) otherwise.
C21_DecoratorsMapAbsence ==
    /\ (prog = "result_dec" /\ Terminated /\ fnOut.how = "return") =>
           /\ pc = "returned"
           /\ ret = (IF fnOut.val = PyNone THEN Err(PyNone) ELSE Ok(fnOut.val))
    /\ (prog = "option_dec" /\ Terminated /\ FnIsFunction) =>
           /\ pc = "returned"
           /\ ret = (IF fnOut.val = PyNone THEN Nothing
                     ELSE [tag |-> "Some", value |-> fnOut.val])

C21_Witness ==
    /\ prog = "result_dec" /\ pc = "returned"
    /\ fnOut = Return(PyNone)
    /\ ret = Err(PyNone)

\* C22: equality is total and structural: comparing any two containers
\* never raises a fault; two Results are equal iff both are Ok with equal
\* values or both are Err with equal errors (for every payload, the absence
\* marker included), two Options are equal iff both are Nothing or both are
\* Some with equal inner values, and cross-variant comparison is always
\* unequal.
C22_EqualityTotalStructural ==
    (SingleCall("__eq__") /\ pos = 1) =>
        LET a == recv
            b == chain[1].arg
            equal == ret = PyBool(TRUE)
        IN  /\ pc = "returned"
            /\ ret \in {PyBool(TRUE), PyBool(FALSE)}
            /\ (IsResult(a) /\ IsResult(b)) =>
                   (equal <=> \/ is_ok(a) /\ is_ok(b) /\ a.value = b.value
                              \/ is_err(a) /\ is_err(b) /\ a.value = b.value)
            /\ (IsOption(a) /\ IsOption(b)) =>
                   (equal <=> \/ a = Nothing /\ b = Nothing
                              \/ is_some(a) /\ is_some(b) /\ a.value = b.value)
            /\ a.tag # b.tag => ~equal

C22_Witness ==
    /\ SingleCall("__eq__") /\ pos = 1
    /\ recv = Err(PyNone) /\ chain[1].arg = Err(PyNone)
    /\ pc = "returned" /\ ret = PyBool(TRUE)

\* C23: Option.or_else and Option.unwrap_or_else are lazy: on Some(v) the
\* supplied function is invoked zero times and the result is Some(v)
\* (respectively v); on Nothing the function is invoked exactly once and its
\* result is returned.
C23_OrElseLazy ==
    \A m \in {"or_else", "unwrap_or_else"} :
        (SingleCall(m) /\ IsOption(recv) /\ pos = 1) =>
            IF is_some(recv)
            THEN /\ fcalls[1] = 0
                 /\ pc = "returned"
                 /\ ret = (IF m = "or_else" THEN recv ELSE recv.value)
            ELSE /\ fcalls[1] = 1
                 /\ chain[1].fn = "zero" => (pc = "returned" /\ ret = PyInt(0))
                 /\ chain[1].fn = "some" =>
                        (pc = "returned" /\ ret = Some(PyInt(MaxVal)))
                 /\ chain[1].fn = "nothing" => (pc = "returned" /\ ret = Nothing)

C23_Witness ==
    /\ SingleCall("or_else") /\ pos = 1
    /\ recv = Some(PyInt(1)) /\ chain[1].fn = "some"
    /\ fcalls[1] = 0
    /\ pc = "returned" /\ ret = Some(PyInt(1))

\* flatten has been applied to recv at least once.
Flattened == prog = "chain" /\ pos >= 1 /\ chain[1].m = "flatten"

\* c is neither a Some wrapping an Option nor an Ok wrapping an Ok.
IsFlat(c) ==
    /\ ~(c.tag = "Some" /\ IsContainer(c.value) /\ IsOption(c.value))
    /\ ~(c.tag = "Ok" /\ IsContainer(c.value) /\ c.value.tag = "Ok")

RECURSIVE WrapN(_, _, _)

\* v inside k containers of the variant w.
WrapN(w, k, v) ==
    IF k = 0 THEN v ELSE [tag |-> w, value |-> WrapN(w, k - 1, v)]

C25_OptionCallsFnOnce ==
    (prog = "option_dec" /\ Terminated) =>
        /\ invoked[1] = 1
        /\ fnOut.how = "return" =>
               /\ pc = "returned"
               /\ ret = (IF fnOut.val = PyNone THEN Nothing ELSE Some(fnOut.val))
        /\ fnOut.how = "raise" => (pc = "raised" /\ raised = fnOut.val)

\* C26: AsyncResult.do hands exactly one AsyncResult to its block per
\* entry, on both the success and the failure path, and after the block has
\* run (whether it finishes normally or raises a fault) the sequencer
\* terminates without yielding a second value; a fault raised by the block
\* is never replaced by a different fault originating in the construct.
C26_OneYieldPerEntry ==
    prog = "async_do" =>
        /\ Len(yielded) <= 1
        /\ bodyRuns >= 1 => Len(yielded) = 1
        /\ (Terminated /\ bodyRuns >= 1) =>
               IF bodyOut = "raise"
               THEN pc = "raised" /\ raised = BodyFault
               ELSE pc = "after" /\ raised = NoExc

\* C27: in synchronous do-notation an error is logged only when the block
\* body raises a fault: a chain in which some step's container is in the
\* failure variant (Nothing / Err) and whose body therefore never runs
\* produces no error-log entry, whatever the position of the failing step.
C27_LogOnlyOnBodyFault ==
    prog = "sync_do" =>
        \A k \in Steps : FirstNot(k, "fail") => (bodyRuns = 0 /\ log = <<>>)

====
